---- MODULE Spec2Model ----
(***************************************************************************)
(* extract_go_symbols.py: walk ./backend, read every *.go file, run two    *)
(* regular-expression passes over its text (functions, then structs),      *)
(* accumulate one record per match in go_chunks and dump go_chunks once    *)
(* to kubestellar_go_chunks.json.                                          *)
(*                                                                         *)
(* A file's text is a sequence of lexical tokens; the text itself is the   *)
(* concatenation Join(tokens).  Every token is atomic for both patterns:   *)
(* the literals "//", "func", "type", "struct" occur in a text only as     *)
(* whole tokens, every other token is one character.  A regular-expression *)
(* match therefore starts and ends on token boundaries, and positions are  *)
(* token indices (1-based; Len+1 is the end of the text).                  *)
(***************************************************************************)
EXTENDS Naturals, Sequences, FiniteSets

\* ------------------------------------------------------------------ bounds
MaxPieces == 4      \* text fragments per file in the single-file trees
MaxFiles  == 3      \* files per tree in the multi-file trees
MaxRuns   == 2      \* consecutive runs of the script over the same tree

\* ------------------------------------------------------------- characters
SPACE == {" ", "\n"}                                      \* \s
WORD  == {"func", "type", "struct",
          "F", "K", "M", "T", "X", "a", "b", "g", "r", "x"} \* \w (runs of)
NoMatch == [none |-> TRUE]                                \* re: no match here

At(t, i) == IF i \in 1..Len(t) THEN t[i] ELSE ""

RECURSIVE Join(_)
Join(s) == IF s = <<>> THEN "" ELSE Head(s) \o Join(Tail(s))

RECURSIVE Flatten(_)
Flatten(ss) == IF ss = <<>> THEN <<>> ELSE Head(ss) \o Flatten(Tail(ss))

\* str.strip(): leading and trailing whitespace removed.
RECURSIVE LStrip(_)
LStrip(s) == IF s # <<>> /\ Head(s) \in SPACE THEN LStrip(Tail(s)) ELSE s
RECURSIVE RStrip(_)
RStrip(s) == IF s # <<>> /\ s[Len(s)] \in SPACE
             THEN RStrip(SubSeq(s, 1, Len(s) - 1)) ELSE s
Strip(s) == RStrip(LStrip(s))

\* ------------------------------------------------- the pattern fragments
\* \s* and \s+ (greedy; what follows never starts with whitespace, so the
\* longest run is the only one that can match): first position >= i that
\* holds no whitespace.
RECURSIVE SkipWs(_, _)
SkipWs(t, i) == IF At(t, i) \in SPACE THEN SkipWs(t, i + 1) ELSE i

\* \w+ (greedy, followed by \s or "(": the longest run is the only one).
RECURSIVE SkipWord(_, _)
SkipWord(t, i) == IF At(t, i) \in WORD THEN SkipWord(t, i + 1) ELSE i

\* .*\n from i: the position of the first newline at or after i, 0 if none
\* ("." does not match a newline).
RECURSIVE LineEnd(_, _)
LineEnd(t, i) == IF i > Len(t) THEN 0
                 ELSE IF t[i] = "\n" THEN i ELSE LineEnd(t, i + 1)

\* .*?\) from i: the position of the first ")" at or after i on this line,
\* 0 if none.
RECURSIVE CloseParen(_, _)
CloseParen(t, i) == IF i > Len(t) \/ t[i] = "\n" THEN 0
                    ELSE IF t[i] = ")" THEN i ELSE CloseParen(t, i + 1)

\* (//.*\n)* from i, greedy: every iteration is one whole comment line.  Only
\* the longest run can be followed by \s*func or \s*type.  pos is the
\* position after the run, first and last the starts of its first and last
\* iteration (0: no iteration); group 1 keeps the LAST iteration only.
RECURSIVE CommentRun(_, _, _, _)
CommentRun(t, i, first, last) ==
    IF At(t, i) = "//" /\ LineEnd(t, i) # 0
    THEN CommentRun(t, LineEnd(t, i) + 1, IF first = 0 THEN i ELSE first, i)
    ELSE [pos |-> i, first |-> first, last |-> last]

Group1(t, run) == IF run.last = 0 THEN NoMatch
                  ELSE [text |-> SubSeq(t, run.last, run.pos - 1)]

\* (\w+)\s*\((.*?)\) at i.
FuncTail(t, i) ==
    LET j == SkipWord(t, i)
        k == SkipWs(t, j)
        r == CloseParen(t, k + 1)
    IN  IF j = i \/ At(t, k) # "(" \/ r = 0 THEN NoMatch
        ELSE [name   |-> SubSeq(t, i, j - 1),
              params |-> SubSeq(t, k + 1, r - 1),
              end    |-> r + 1]

\* (\(.*?\)\s+) with "(" at b, then the tail: the lazy .*? stops at the
\* first ")" of the line after which \s+ and the tail match.
RECURSIVE ReceiverTail(_, _)
ReceiverTail(t, i) ==
    LET r == CloseParen(t, i)
        c == SkipWs(t, r + 1)
    IN  IF r = 0 THEN NoMatch
        ELSE IF c > r + 1 /\ FuncTail(t, c) # NoMatch THEN FuncTail(t, c)
        ELSE ReceiverTail(t, r + 1)

\* (//.*\n)*\s*func\s+(\(.*?\)\s+)?(\w+)\s*\((.*?)\) matched at p.
FuncMatchAt(t, p) ==
    LET run  == CommentRun(t, p, 0, 0)
        a    == SkipWs(t, run.pos)
        b    == SkipWs(t, a + 1)
        tail == IF At(t, b) = "(" THEN ReceiverTail(t, b + 1) ELSE FuncTail(t, b)
    IN  IF At(t, a) # "func" \/ b = a + 1 \/ tail = NoMatch THEN NoMatch
        ELSE [start |-> p, end |-> tail.end, kw |-> a, run |-> run,
              g1 |-> Group1(t, run), name |-> tail.name, params |-> tail.params]

\* (//.*\n)*\s*type\s+(\w+)\s+struct\s*{ matched at p.
StructMatchAt(t, p) ==
    LET run == CommentRun(t, p, 0, 0)
        a   == SkipWs(t, run.pos)
        b   == SkipWs(t, a + 1)
        c   == SkipWord(t, b)
        d   == SkipWs(t, c)
        e   == SkipWs(t, d + 1)
    IN  IF At(t, a) # "type" \/ b = a + 1 \/ c = b \/ d = c
           \/ At(t, d) # "struct" \/ At(t, e) # "{" THEN NoMatch
        ELSE [start |-> p, end |-> e + 1, kw |-> a, run |-> run,
              g1 |-> Group1(t, run), name |-> SubSeq(t, b, c - 1), params |-> <<>>]

MatchAt(pass, t, p) == IF pass = "function" THEN FuncMatchAt(t, p)
                       ELSE StructMatchAt(t, p)

\* A scan that resumes one position after the START of a match.
NextScanOverlapping(m) == m.start + 1

\* After a match the scan goes on where the match ended.
NextScan(m) == m.end

\* re.finditer: the leftmost match from p, then on from its end.
RECURSIVE Finditer(_, _, _)
Finditer(pass, t, p) ==
    IF p > Len(t) THEN <<>>
    ELSE LET m == MatchAt(pass, t, p)
         IN  IF m = NoMatch THEN Finditer(pass, t, p + 1)
             ELSE <<m>> \o Finditer(pass, t, NextScan(m))

\* group(1) taken without .strip().
DocOfUnstripped(m) == IF m.g1 = NoMatch THEN "" ELSE Join(m.g1.text)

\* match.group(1).strip() if match.group(1) else ""
DocOf(m) == IF m.g1 = NoMatch THEN "" ELSE Join(Strip(m.g1.text))

FuncParams(m) == Join(m.params)

FuncRecord(file_path, m) ==
    [type |-> "function", name |-> Join(m.name), params |-> FuncParams(m),
     doc |-> DocOf(m), source_file |-> file_path]

\* A struct record given the captured name as params.
StructParamsFromName(m) == Join(m.name)

StructParams(m) == ""

StructRecord(file_path, m) ==
    [type |-> "struct", name |-> Join(m.name), params |-> StructParams(m),
     doc |-> DocOf(m), source_file |-> file_path]

FuncRecords(file_path, t) ==
    LET ms == Finditer("function", t, 1)
    IN  [i \in 1..Len(ms) |-> FuncRecord(file_path, ms[i])]

StructRecords(file_path, t) ==
    LET ms == Finditer("struct", t, 1)
    IN  [i \in 1..Len(ms) |-> StructRecord(file_path, ms[i])]

\* extract_go_symbols(file_path) on a readable file with text t.
Extract(file_path, t) == FuncRecords(file_path, t) \o StructRecords(file_path, t)

\* ------------------------------------------------------- the file system
backend_dir == "./backend"
OutputName  == "kubestellar_go_chunks.json"

\* A file name is its dot-separated parts; the name itself is Join(parts).
FileNames == {<<"a", ".go">>, <<"b", ".go">>, <<"a", ".go", ".txt">>}

\* file.endswith(".go")
EndsWithGo(name) == name # <<>> /\ name[Len(name)] = ".go"

\* os.path.join(root, file)
PathJoin(root, name) == root \o "/" \o Join(name)

\* Text fragments the single-file trees are composed of.
CommentA   == <<"//", "a", "\n">>
CommentB   == <<"//", "b", "\n">>
CommentedT == <<"//", "type", " ", "X", " ", "struct", "{", "\n">>
CommentedF == <<"//", "func", " ", "M", "(", ")", "\n">>
Newline    == <<"\n">>
FuncF      == <<"func", " ", "F", "(", "x", ")">>
MethodM    == <<"func", " ", "(", "r", ")", " ", "M", "(", ")">>
StructT    == <<"type", " ", "T", " ", "struct", "{">>
Indent     == <<" ">>
FuncBody    == <<"func", " ", "F", "(", "x", ")", " ", "{", "}">>
FuncNested  == <<"func", " ", "F", "(", "g", " ", "func", "(", ")", ")">>
FuncGeneric == <<"func", " ", "F", "[", "K", "]", "(", "x", ")">>
StructGeneric == <<"type", " ", "T", "[", "K", "]", " ", "struct", "{">>
Pieces     == {CommentA, CommentB, CommentedT, Newline, Indent, FuncF, MethodM,
               StructT}

SeqsUpTo(S, n) == UNION {[1..k -> S] : k \in 0..n}

\* The texts of the files of the multi-file trees: the scenario of the
\* specification (comment, function, struct) and a text without declaration.
ScenarioText == Flatten(<<CommentA, FuncF, Newline, StructT, Newline>>)
StructFirst  == Flatten(<<StructT, Newline, CommentB, MethodM, Newline>>)
SampleTexts  == {ScenarioText, StructFirst, CommentA}

TreeFiles ==
    {f \in [name : FileNames, readable : BOOLEAN, text : SampleTexts] :
        /\ ~f.readable => f.text = CommentA
        /\ ~EndsWithGo(f.name) => f.readable /\ f.text = ScenarioText}

DistinctNames(fs) == \A i, j \in 1..Len(fs) : i # j => fs[i].name # fs[j].name

\* The files of backend_dir and of its subdirectory api: at most MaxFiles in
\* all, names distinct within a directory.
DirFiles(n) == {fs \in [1..n -> TreeFiles] : DistinctNames(fs)}
FilePairs ==
    UNION {DirFiles(n[1]) \X DirFiles(n[2]) :
             n \in {m \in (0..MaxFiles) \X (0..MaxFiles) : m[1] + m[2] <= MaxFiles}}

\* backend_dir, whose listing succeeds (top) or not, with the subdirectory
\* api, whose listing succeeds (sub) or fails (no permission).
TreeOf(p, top, sub) ==
    <<[root |-> backend_dir, listable |-> top, files |-> p[1]],
      [root |-> backend_dir \o "/api", listable |-> sub, files |-> p[2]]>>

MultiTrees == {TreeOf(p, TRUE, sub) : p \in FilePairs, sub \in BOOLEAN}

\* A backend_dir that cannot be listed, whatever it holds.
UnlistedTrees == {TreeOf(p, FALSE, TRUE) : p \in FilePairs}

\* backend_dir holding the single file a.go, of any text of at most
\* MaxPieces fragments.
SingleTree(text) ==
    <<[root |-> backend_dir, listable |-> TRUE,
       files |-> <<[name |-> <<"a", ".go">>, readable |-> TRUE, text |-> text]>>]>>

SingleTrees == {SingleTree(Flatten(ps)) : ps \in SeqsUpTo(Pieces, MaxPieces)}

\* The files of the specification's scenario: one comment line, a
\* single-line function declaration right after it, then a struct
\* declaration.  Each part comes with what it declares: the comment's
\* trimmed text, the function's name and the text between its parameter
\* parentheses, the struct's name.
ScenarioComments ==
    {[text |-> CommentA, doc |-> "//a"], [text |-> CommentB, doc |-> "//b"],
     [text |-> CommentedF, doc |-> "//func M()"],
     [text |-> CommentedT, doc |-> "//type X struct{"]}
ScenarioFuncs ==
    {[text |-> FuncF, name |-> "F", params |-> "x",
      typeParams |-> FALSE, parenInParams |-> FALSE],
     [text |-> FuncBody, name |-> "F", params |-> "x",
      typeParams |-> FALSE, parenInParams |-> FALSE],
     [text |-> MethodM, name |-> "M", params |-> "",
      typeParams |-> FALSE, parenInParams |-> FALSE],
     [text |-> FuncNested, name |-> "F", params |-> "g func()",
      typeParams |-> FALSE, parenInParams |-> TRUE],
     [text |-> FuncGeneric, name |-> "F", params |-> "x",
      typeParams |-> TRUE, parenInParams |-> FALSE]}
ScenarioStructs ==
    {[text |-> StructT, name |-> "T", typeParams |-> FALSE],
     [text |-> StructGeneric, name |-> "T", typeParams |-> TRUE]}
ScenarioOf(c, f, st) == c.text \o f.text \o Newline \o st.text
ScenarioTrees ==
    {SingleTree(ScenarioOf(c, f, st)) :
        c \in ScenarioComments, f \in ScenarioFuncs, st \in ScenarioStructs}

\* What an earlier, unrelated run may have left in the output file.
StaleRecord == [type |-> "function", name |-> "Old", params |-> "", doc |-> "",
                source_file |-> backend_dir \o "/old.go"]
NoFile    == [exists |-> FALSE, data |-> <<>>]
StaleFile == [exists |-> TRUE, data |-> <<StaleRecord>>]

\* ------------------------------------------------------------------ state
VARIABLES
    rootState,   \* backend_dir on disk: "ok", "missing" or "unreadable"
    tree,        \* backend_dir on disk: its directories, top first, each
                 \* [root, listable, files]; a file is [name, readable, text];
                 \* empty when backend_dir is missing
    outFile,     \* kubestellar_go_chunks.json: [exists, data]
    prevOut,     \* outFile as it was when the current run started
    run,         \* number of the current run of the script
    pc,          \* position of the script
    di, fi,      \* os.walk's directory, and the file within it, the loops are at
    file_path,   \* line 40
    content,     \* line 9
    results,     \* line 10
    go_chunks,   \* line 36
    opened,      \* the paths open()ed for reading in this run, in order
    writes       \* times the output file was opened for writing in this run

vars == <<rootState, tree, outFile, prevOut, run, pc, di, fi, file_path,
          content, results, go_chunks, opened, writes>>

\* os.walk(backend_dir): onerror is None, so a directory whose listing fails
\* is passed over in silence: nothing at all is yielded when it is the top
\* directory, and the walk goes on without it when it is a subdirectory.
Listable(d) == d.listable
Walk == IF rootState = "ok" THEN SelectSeq(tree, Listable) ELSE <<>>

AtFile  == pc = "walk" /\ di <= Len(Walk) /\ fi <= Len(Walk[di].files)
CurFile == Walk[di].files[fi]
CurPath == PathJoin(Walk[di].root, CurFile.name)

Start ==
    /\ pc = "walk" /\ di = 1 /\ fi = 1
    /\ file_path = "" /\ content = <<>> /\ results = <<>>
    /\ go_chunks = <<>> /\ opened = <<>> /\ writes = 0

Init ==
    /\ \/ rootState = "ok" /\ tree \in MultiTrees /\ outFile \in {NoFile, StaleFile}
       \/ rootState = "ok" /\ tree \in SingleTrees \union ScenarioTrees
          /\ outFile = NoFile
       \/ rootState = "missing" /\ tree = <<>> /\ outFile \in {NoFile, StaleFile}
       \/ rootState = "unreadable" /\ tree \in UnlistedTrees
          /\ outFile \in {NoFile, StaleFile}
    /\ prevOut = outFile
    /\ run = 1
    /\ Start

\* ---------------------------------------------------------------- actions
\* The new records put in front of the accumulated ones.
PrependChunks(chunks, rs) == rs \o chunks

\* go_chunks.extend(extract_go_symbols(file_path))
ExtendChunks(chunks, rs) == chunks \o rs

\* The output file opened in append mode.
DumpAppend(old, chunks) == [exists |-> TRUE, data |-> old.data \o chunks]

\* open(OutputName, "w") truncates; json.dump writes the list, one object
\* per record, in list order.
DumpTo(old, chunks) == [exists |-> TRUE, data |-> chunks]

\* line 37: the files of this directory are done, os.walk yields the next.
NextDir ==
    /\ pc = "walk" /\ di <= Len(Walk) /\ fi > Len(Walk[di].files)
    /\ di' = di + 1 /\ fi' = 1
    /\ UNCHANGED <<rootState, tree, outFile, prevOut, run, pc, file_path,
                   content, results, go_chunks, opened, writes>>

\* lines 38-39: the name does not end with ".go".
SkipFile ==
    /\ AtFile /\ ~EndsWithGo(CurFile.name)
    /\ fi' = fi + 1
    /\ UNCHANGED <<rootState, tree, outFile, prevOut, run, pc, di, file_path,
                   content, results, go_chunks, opened, writes>>

\* lines 39-40, 8-10: the call, open and read succeed.
OpenRead ==
    /\ AtFile /\ EndsWithGo(CurFile.name) /\ CurFile.readable
    /\ file_path' = CurPath
    /\ opened' = Append(opened, CurPath)
    /\ content' = CurFile.text
    /\ results' = <<>>
    /\ pc' = "func_pass"
    /\ UNCHANGED <<rootState, tree, outFile, prevOut, run, di, fi, go_chunks, writes>>

\* lines 39-40, 8-9: open or read raises (OSError, UnicodeDecodeError); nothing
\* catches it and the script ends.
ReadFail ==
    /\ AtFile /\ EndsWithGo(CurFile.name) /\ ~CurFile.readable
    /\ file_path' = CurPath
    /\ opened' = Append(opened, CurPath)
    /\ pc' = "fatal"
    /\ UNCHANGED <<rootState, tree, outFile, prevOut, run, di, fi, content,
                   results, go_chunks, writes>>

\* lines 11-22
FuncPass ==
    /\ pc = "func_pass"
    /\ results' = results \o FuncRecords(file_path, content)
    /\ pc' = "struct_pass"
    /\ UNCHANGED <<rootState, tree, outFile, prevOut, run, di, fi, file_path,
                   content, go_chunks, opened, writes>>

\* lines 23-33
StructPass ==
    /\ pc = "struct_pass"
    /\ results' = results \o StructRecords(file_path, content)
    /\ pc' = "return"
    /\ UNCHANGED <<rootState, tree, outFile, prevOut, run, di, fi, file_path,
                   content, go_chunks, opened, writes>>

\* lines 34, 41
Extend ==
    /\ pc = "return"
    /\ go_chunks' = ExtendChunks(go_chunks, results)
    /\ content' = <<>> /\ results' = <<>>
    /\ fi' = fi + 1
    /\ pc' = "walk"
    /\ UNCHANGED <<rootState, tree, outFile, prevOut, run, di, file_path,
                   opened, writes>>

\* lines 43-44, once os.walk is exhausted.
WriteOutput ==
    /\ pc = "walk" /\ di > Len(Walk)
    /\ outFile' = DumpTo(outFile, go_chunks)
    /\ writes' = writes + 1
    /\ pc' = "done"
    /\ UNCHANGED <<rootState, tree, prevOut, run, di, fi, file_path, content,
                   results, go_chunks, opened>>

\* The script is run again over the unchanged tree.
Rerun ==
    /\ pc \in {"done", "fatal"} /\ run < MaxRuns
    /\ run' = run + 1
    /\ prevOut' = outFile
    /\ pc' = "walk" /\ di' = 1 /\ fi' = 1
    /\ file_path' = "" /\ content' = <<>> /\ results' = <<>>
    /\ go_chunks' = <<>> /\ opened' = <<>> /\ writes' = 0
    /\ UNCHANGED <<rootState, tree, outFile>>

Next == \/ NextDir \/ SkipFile \/ OpenRead \/ ReadFail \/ FuncPass
        \/ StructPass \/ Extend \/ WriteOutput \/ Rerun

Spec == Init /\ [][Next]_vars

\* ------------------------------------------------- vocabulary of the claims
Range(q) == {q[i] : i \in 1..Len(q)}

Fields == {"type", "name", "params", "doc", "source_file"}

\* Every file on disk under backend_dir, as <<directory, file>> indices, top
\* directory first, whether or not its directory can be listed.
RECURSIVE WalkIdxFrom(_)
WalkIdxFrom(d) ==
    IF d > Len(tree) THEN <<>>
    ELSE [f \in 1..Len(tree[d].files) |-> <<d, f>>] \o WalkIdxFrom(d + 1)

FileAt(x) == tree[x[1]].files[x[2]]
PathOf(x) == tree[x[1]].root \o "/" \o Join(FileAt(x).name)

\* The name's last part is the suffix ".go".
NameEndsDotGo(name) == Len(name) > 0 /\ name[Len(name)] = ".go"
Qualifies(x) == NameEndsDotGo(FileAt(x).name)

AllIdx == WalkIdxFrom(1)
GoIdx  == SelectSeq(AllIdx, Qualifies)
GoPathSeq == [k \in 1..Len(GoIdx) |-> PathOf(GoIdx[k])]

IsPrefix(a, b) == Len(a) <= Len(b) /\ a = SubSeq(b, 1, Len(a))

RecordsOf(q, path) == LET From(r) == r.source_file = path IN SelectSeq(q, From)

\* The matches of the two passes over the text being extracted, and the
\* record built from the i-th match of a pass once both passes are done.
FM == Finditer("function", content, 1)
SM == Finditer("struct", content, 1)
Passes == {"function", "struct"}
MatchesOf(pass) == IF pass = "function" THEN FM ELSE SM
RecOf(pass, i)  == IF pass = "function" THEN results[i] ELSE results[Len(FM) + i]
Extracted == pc = "return" /\ Len(results) = Len(FM) + Len(SM)

\* The start of the line that position i lies on.
RECURSIVE BackToLineStart(_, _)
BackToLineStart(t, i) ==
    IF i <= 1 \/ t[i - 1] = "\n" THEN i ELSE BackToLineStart(t, i - 1)

\* The full-line "//" comment lines that end right where position e starts a
\* line, top to bottom.
RECURSIVE PrecedingComments(_, _)
PrecedingComments(t, e) ==
    IF e <= 1 \/ t[e - 1] # "\n" THEN <<>>
    ELSE LET s == BackToLineStart(t, e - 1)
         IN  IF t[s] = "//"
             THEN Append(PrecedingComments(t, s), SubSeq(t, s, e - 1))
             ELSE <<>>

\* The lines, each trimmed, joined top to bottom with sep between them.
RECURSIVE JoinLines(_, _)
JoinLines(lines, sep) ==
    IF Len(lines) = 1 THEN Join(Strip(lines[1]))
    ELSE Join(Strip(Head(lines))) \o sep \o JoinLines(Tail(lines), sep)

\* The last position before i that holds no whitespace (0: none).
RECURSIVE BackWs(_, _)
BackWs(t, i) == IF i >= 1 /\ t[i] \in SPACE THEN BackWs(t, i - 1) ELSE i

NewlinesIn(t, lo, hi) == Cardinality({i \in lo..hi : t[i] = "\n"})

\* The nearest text before the keyword at kw is a full-line comment, and at
\* least one blank line lies between that comment line and the keyword.
BlankSeparated(t, kw) ==
    LET e == BackWs(t, kw - 1)
        s == BackToLineStart(t, e)
    IN  /\ e >= 1
        /\ At(t, SkipWs(t, s)) = "//"
        /\ NewlinesIn(t, e + 1, kw - 1) >= 2

\* ------------------------------------------------------------------ claims

\* C1: if backend_dir is missing or unreadable the run ends in a fatal error
\* and the output file is not created, truncated or written in that run.
C1_RootErrorIsFatal ==
    rootState # "ok" => pc # "done" /\ writes = 0 /\ outFile = prevOut

\* C2: a declaration directly preceded by two or more consecutive full-line
\* "//" comment lines gets a doc holding all of those lines, top to bottom
\* (joined with a newline, a space or nothing), and nothing of the declaration.
C2_DocHoldsAllCommentLines ==
    Extracted =>
      \A pass \in Passes : \A i \in 1..Len(MatchesOf(pass)) :
        LET lines == PrecedingComments(content, MatchesOf(pass)[i].kw)
        IN  Len(lines) >= 2 =>
              RecOf(pass, i).doc \in {JoinLines(lines, sep) : sep \in {"\n", " ", ""}}

\* C3: a declaration whose nearest preceding comment line is separated from
\* it by at least one blank line gets doc = "".
C3_BlankLineDetachesComment ==
    Extracted =>
      \A pass \in Passes : \A i \in 1..Len(MatchesOf(pass)) :
        BlankSeparated(content, MatchesOf(pass)[i].kw) => RecOf(pass, i).doc = ""

\* C4: after a successful run, every file under the root whose name ends with ".go"
\* has as many records in the output as its text has function matches plus
\* struct matches (none when it has none), every other file has none, and
\* files of the same name in different directories keep their own records.
C4_RecordsPerFile ==
    (pc = "done" /\ rootState = "ok") =>
      /\ \A k \in 1..Len(AllIdx) :
           Len(RecordsOf(outFile.data, PathOf(AllIdx[k]))) =
             IF Qualifies(AllIdx[k])
             THEN Len(Finditer("function", FileAt(AllIdx[k]).text, 1))
                  + Len(Finditer("struct", FileAt(AllIdx[k]).text, 1))
             ELSE 0
      /\ \A r \in Range(outFile.data) : r.source_file \in Range(GoPathSeq)

\* C5: the written sequence is ordered by the order in which the files were
\* processed, and within one file by match order (the function pass's
\* matches, then the struct pass's).
PosIn(q, v) == CHOOSE k \in 1..Len(q) : q[k] = v

C5_OutputOrder ==
    pc = "done" =>
      /\ \A r \in Range(outFile.data) : r.source_file \in Range(opened)
      /\ \A i, j \in 1..Len(outFile.data) :
           i < j => PosIn(opened, outFile.data[i].source_file)
                      <= PosIn(opened, outFile.data[j].source_file)
      /\ \A k \in 1..Len(AllIdx) :
           PathOf(AllIdx[k]) \in Range(opened) =>
             RecordsOf(outFile.data, PathOf(AllIdx[k]))
               = Extract(PathOf(AllIdx[k]), FileAt(AllIdx[k]).text)

C5_Witness ==
    /\ pc = "done"
    /\ \E i, j \in 1..Len(outFile.data) :
         /\ i + 1 < j
         /\ outFile.data[i].source_file = outFile.data[i + 1].source_file
         /\ outFile.data[i].source_file # outFile.data[j].source_file

\* C6: a second run over the unchanged tree leaves the output exactly as the
\* first run wrote it, and no run's output holds anything a previous run left.
C6_RerunSameOutput ==
    pc = "done" =>
      /\ run > 1 => outFile = prevOut
      /\ StaleRecord \notin Range(outFile.data)

C6_Witness == pc = "done" /\ run > 1 /\ Len(outFile.data) >= 2

\* C7: every record held at any point of the run, and every record written,
\* has exactly the five fields, type "function" or "struct", a non-empty name
\* and source_file, and params = "" when it is a struct.
WellFormed(r) ==
    /\ DOMAIN r = Fields
    /\ r.type \in {"function", "struct"}
    /\ r.name # "" /\ r.source_file # ""
    /\ r.type = "struct" => r.params = ""

C7_RecordsWellFormed ==
    \A r \in Range(go_chunks) \union Range(results)
             \union (IF writes > 0 THEN Range(outFile.data) ELSE {}) :
        WellFormed(r)

C7_Witness ==
    /\ writes > 0
    /\ \E r \in Range(outFile.data) : r.type = "struct"
    /\ \E r \in Range(outFile.data) : r.type = "function" /\ r.params # ""
    /\ \E r \in Range(outFile.data) : r.type = "function" /\ r.params = "" /\ r.doc = ""

\* C8: a file made of one "//" comment line, a single-line function
\* declaration right after it and then a struct declaration with no comment
\* before it yields exactly two records: the function with the trimmed comment
\* line as doc and the raw parameter text as params, and the struct with
\* params = "" and doc = "", both fields present.
ScenarioRecords(c, f, st) ==
    <<[type |-> "function", name |-> f.name, params |-> f.params, doc |-> c.doc,
       source_file |-> file_path],
      [type |-> "struct", name |-> st.name, params |-> "", doc |-> "",
       source_file |-> file_path]>>

TwoRecordsFor(comments, funcs, structs) ==
    pc = "return" =>
      \A c \in comments, f \in funcs, st \in structs :
        content = ScenarioOf(c, f, st) =>
          /\ results = ScenarioRecords(c, f, st)
          /\ {"params", "doc"} \subseteq DOMAIN results[2]

C8_ScenarioTwoRecords ==
    TwoRecordsFor(ScenarioComments, ScenarioFuncs, ScenarioStructs)

\* C8, amended: the same, when the comment line's own text holds nothing that
\* matches the struct pattern, the function declaration is "func", an
\* optional receiver, the name and right after it the parameter list (no
\* type parameters) with no parenthesis inside the parameters, and the struct
\* declaration is "type", the name, "struct {" (no type parameters).
PlainComments == {c \in ScenarioComments : Finditer("struct", c.text, 1) = <<>>}
PlainFuncs    == {f \in ScenarioFuncs : ~f.typeParams /\ ~f.parenInParams}
PlainStructs  == {st \in ScenarioStructs : ~st.typeParams}

C8_PlainScenarioTwoRecords == TwoRecordsFor(PlainComments, PlainFuncs, PlainStructs)

C8_Witness ==
    /\ pc = "return" /\ Len(results) = 2
    /\ results[2].type = "struct" /\ results[2].doc = "" /\ results[2].params = ""
    /\ \E c \in PlainComments, f \in PlainFuncs, st \in PlainStructs :
         content = ScenarioOf(c, f, st) /\ f.params # "" /\ f.text = FuncBody

\* C9: the output file is opened and written at most once per run, and only
\* after every qualifying file has been read and extracted, one at a time in
\* walk order; a file that cannot be read or decoded ends the run at that
\* file, and then the output file is neither opened nor modified.
C9_WriteOnceAfterAllRead ==
    LET go    == GoIdx
        paths == [k \in 1..Len(go) |-> PathOf(go[k])]
    IN  /\ writes <= 1
        /\ IsPrefix(opened, paths)
        /\ pc \in {"func_pass", "struct_pass", "return"} =>
             opened # <<>> /\ file_path = opened[Len(opened)]
        /\ writes = 1 =>
             /\ pc = "done" /\ opened = paths /\ outFile.data = go_chunks
             /\ \A k \in 1..Len(go) : FileAt(go[k]).readable
        /\ pc = "fatal" =>
             /\ writes = 0 /\ outFile = prevOut /\ opened # <<>>
             /\ ~FileAt(go[Len(opened)]).readable
             /\ \A k \in 1..(Len(opened) - 1) : FileAt(go[k]).readable
        /\ (\E k \in 1..Len(go) : paths[k] \in Range(opened) /\ ~FileAt(go[k]).readable) =>
             writes = 0 /\ outFile = prevOut

\* C10: in the records of one file every function record precedes every
\* struct record wherever the declarations stand in the text; each pass's
\* records follow its matches in increasing position, and the matches of one
\* pass do not overlap.
InOrderDisjoint(ms) ==
    /\ \A k \in 1..Len(ms) : ms[k].start < ms[k].end
    /\ \A k \in 1..(Len(ms) - 1) : ms[k].end <= ms[k + 1].start

C10_FunctionsThenStructs ==
    pc = "return" =>
      LET fm == FM
          sm == SM
      IN  /\ Len(results) = Len(fm) + Len(sm)
          /\ \A i \in 1..Len(fm) :
               /\ results[i].type = "function"
               /\ results[i].name = Join(fm[i].name)
          /\ \A i \in 1..Len(sm) :
               /\ results[Len(fm) + i].type = "struct"
               /\ results[Len(fm) + i].name = Join(sm[i].name)
          /\ InOrderDisjoint(fm) /\ InOrderDisjoint(sm)

C10_Witness ==
    /\ pc = "return" /\ Len(FM) >= 2 /\ Len(SM) >= 1
    /\ SM[1].start < FM[1].start
    /\ results[Len(results)].type = "struct"
====
